---- MODULE Spec2Model ----
(***************************************************************************)
(* A model of the anim crate: the Animation combinator algebra             *)
(* (src/src/core/animation/*.rs), the Options/Primitive builder and the    *)
(* Timeline play-state machine (src/src/core/timeline.rs).                 *)
(*                                                                         *)
(* Time.  A Duration and an Instant are natural numbers of ticks; one tick *)
(* stands for 500 ms, so the crate's one-second default is 2 ticks.        *)
(* Normalized time (the f64 in [0,1]) is an exact fraction <<p, q>>, q > 0.*)
(* Option<T> is a sequence: None is << >> and Some(x) is <<x>>.            *)
(* The outcome of animate() is a sequence too: <<v>> when it returns v and *)
(* << >> when the call panics.                                             *)
(***************************************************************************)
EXTENDS Integers, Sequences, FiniteSets, TLC

None == << >>
Some(x) == <<x>>
IsSome(o) == Len(o) = 1

\* the outcome of a call that panics, and of one that returns v
Panic == << >>
Ok(v) == <<v>>

DURATION_ZERO == 0
DEFAULT_ANIMATION_DURATION == 2

-----------------------------------------------------------------------------
(* Bounds of the model *)

\* the clock never reads more than this
MaxClock == 23
\* the largest elapsed time asked of an animation directly
MaxElapsed == 13
\* normalized time is asked at the fractions 0/TimeSteps .. TimeSteps/TimeSteps
TimeSteps == 4

-----------------------------------------------------------------------------
(* Arithmetic helpers *)

\* `x as Self` for an integer type: truncation towards zero of a / b, b > 0
TruncDiv(a, b) == IF a >= 0 THEN a \div b ELSE -((-a) \div b)

\* Duration::mul_f32(count) with count = n2 / 2: float seconds back to a Duration
mul_f32(d, n2) == (d * n2) \div 2

\* Duration::div_f64(scale) with scale = num / den, num > 0
div_f64(d, num, den) == (d * den) \div num

\* a faulty Max: the smaller of the two
Max_smaller(a, b) == IF a >= b THEN b ELSE a

\* Ord::max of two Durations
Max(a, b) == IF a >= b THEN a ELSE b

-----------------------------------------------------------------------------
(* Animatable and easing *)

\* impl_primitive!($ty) for an integer type: self.animate(to, time), time = p/q
IntAnimate(from, to, p, q) ==
    IF p = 0 THEN from
    ELSE IF p = q THEN to
    ELSE IF from = to THEN from
    ELSE LET v2 == 2 * (from * (q - p) + to * p)   \* 2 * q * v
         IN  IF to >= from THEN TruncDiv(v2 + q, 2 * q)
                           ELSE TruncDiv(v2 - q, 2 * q)

\* impl_primitive!($ty, float): a float is an exact fraction <<n, d>> here, so
\* (1.0 - time).abs() < f64::EPSILON is p = q and (self - to).abs() < EPSILON is
\* from = to; `v as Self` rounds nothing
FloatAnimate(from, to, p, q) ==
    IF p = 0 THEN from
    ELSE IF p = q THEN to
    ELSE IF from = to THEN from
    ELSE <<(from[1] * to[2] * (q - p)) + (to[1] * from[2] * p), from[2] * to[2] * q>>

\* impl Animatable for bool
BoolAnimate(from, to, p, q) == IF p < q THEN from ELSE to

\* (from..=to).nth(n) of a RangeInclusive<char>, a char being its code point: an
\* empty range (from > to) yields None, and stepping forward skips the surrogates
\* 0xD800..=0xDFFF
RangeNth(from, to, n) ==
    IF from > to THEN None
    ELSE LET res == from + n
             c == IF from < 55296 /\ 55296 <= res THEN res + 2048 ELSE res
         IN  IF c <= to THEN Some(c) ELSE None

\* impl Animatable for char
CharAnimate(from, to, p, q) ==
    IF from = to THEN from
    ELSE LET idx == IntAnimate(from, to, p, q)
             n == IF from > to THEN from - idx ELSE idx - from
             c == RangeNth(from, to, n)
         IN  IF IsSome(c) THEN c[1] ELSE from

\* Animatable::animate of the built-in type ty; impl_tuple! blends field by field
\* ("int_bool" is the tuple type (i32, bool))
ValueAnimate(ty, from, to, p, q) ==
    CASE ty = "int" -> IntAnimate(from, to, p, q)
      [] ty = "float" -> FloatAnimate(from, to, p, q)
      [] ty = "bool" -> BoolAnimate(from, to, p, q)
      [] ty = "char" -> CharAnimate(from, to, p, q)
      [] ty = "int_bool" -> <<IntAnimate(from[1], to[1], p, q),
                              BoolAnimate(from[2], to[2], p, q)>>

\* easing::Function::ease for linear() and quad_ease(), mode In
ease(f, p, q) == IF f = "quad" THEN <<p * p, q * q>> ELSE <<p, q>>

-----------------------------------------------------------------------------
(* Options and the constructors of the animation nodes *)

Count(n2) == [tag |-> "Count", n2 |-> n2]      \* RepeatBehavior::Count(n2 / 2)
Forever == [tag |-> "Forever"]

\* Options::new(from, to) followed by the setters the model uses
Options(from, to, duration, repeat, auto_reverse, skip, delay, easing) ==
    [from |-> from, to |-> to, auto_reverse |-> auto_reverse, skip |-> skip,
     delay |-> delay, duration |-> duration, repeat |-> repeat, easing |-> easing]

\* Primitive::new: the repeated duration is computed once, at construction
PrimitiveNew(opt) ==
    [kind |-> "Primitive", opt |-> opt,
     duration |->
        IF opt.duration = DURATION_ZERO THEN Some(DURATION_ZERO)
        ELSE IF opt.repeat.tag = "Count"
             THEN Some(IF opt.repeat.n2 > 0 THEN mul_f32(opt.duration, opt.repeat.n2)
                                            ELSE DURATION_ZERO)
             ELSE None]

DelayNew(src, delay) == [kind |-> "Delay", src |-> src, delay |-> delay]
MapNew(src, f) == [kind |-> "Map", src |-> src, f |-> f]
ChainNew(first, second) == [kind |-> "Chain", first |-> first, second |-> second]
ParallelNew(first, second) == [kind |-> "Parallel", first |-> first, second |-> second]
\* Take { src, duration }: the field is named length here, for duration is an
\* Option<Duration> in Primitive and Repeat and records compare field by field
TakeNew(src, duration) == [kind |-> "Take", src |-> src, length |-> duration]
\* Scale::new(src, scale) with scale = num / den >= 0 (assert!(scale >= 0.0))
ScaleNew(src, num, den) == [kind |-> "Scale", src |-> src, num |-> num, den |-> den]
CacheNew(src) == [kind |-> "Cache", src |-> src]

\* the functions given to map(): Fn(Item) -> T
MapFn(f, v) == IF f = "neg" THEN -v ELSE v \div 3

-----------------------------------------------------------------------------
(* Key frames *)

KeyTimeDuration(d) == [tag |-> "Duration", d |-> d]
\* KeyTime::Percent(n4 / 4)
KeyTimePercent(n4) == [tag |-> "Percent", n4 |-> n4]
KeyFrame(value, key_time, easing) ==
    [value |-> value, key_time |-> key_time, easing |-> easing]

\* KeyFrameInner::cvt_from: a percent stamp resolves against the total duration
cvt_from(frame, duration) ==
    [value |-> frame.value, easing |-> frame.easing,
     key_time |-> IF frame.key_time.tag = "Duration" THEN frame.key_time.d
                  ELSE (duration * frame.key_time.n4) \div 4]

\* the position a frame takes in a list sorted by key_time (stable: after its equals)
RECURSIVE InsertByKeyTime(_, _)
InsertByKeyTime(sorted, x) ==
    IF sorted = << >> THEN <<x>>
    ELSE IF sorted[Len(sorted)].key_time <= x.key_time THEN Append(sorted, x)
    ELSE Append(InsertByKeyTime(SubSeq(sorted, 1, Len(sorted) - 1), x),
                sorted[Len(sorted)])

\* a faulty sort_by_key: the frames stay in the order they were supplied in
sort_by_key_unsorted(frames) == frames

\* Vec::sort_by_key(|x| x.key_time)
RECURSIVE sort_by_key(_)
sort_by_key(frames) ==
    IF frames = << >> THEN << >>
    ELSE InsertByKeyTime(sort_by_key(SubSeq(frames, 1, Len(frames) - 1)),
                         frames[Len(frames)])

\* Builder::build, for a non-empty list of frames (assert!(key_frames.len() > 0));
\* KeyFrameAnimation::duration is the field length here, as in Take
KeyFramesBuild(frames) ==
    LET absolute == { frames[i].key_time.d :
                        i \in { j \in 1..Len(frames) : frames[j].key_time.tag = "Duration" } }
        max_duration == IF absolute = {} THEN DEFAULT_ANIMATION_DURATION
                        ELSE CHOOSE d \in absolute : \A x \in absolute : x <= d
    IN  [kind |-> "KeyFrames",
         key_frames |-> sort_by_key([i \in 1..Len(frames) |-> cvt_from(frames[i], max_duration)]),
         length |-> max_duration]

\* the loop of KeyFrameAnimation::animate from frame i on; last = 0 is "no frame yet"
RECURSIVE KeyFrameScan(_, _, _, _)
KeyFrameScan(kf, i, last, elapsed) ==
    IF i > Len(kf) THEN Ok(kf[Len(kf)].value)
    ELSE IF kf[i].key_time <= elapsed THEN KeyFrameScan(kf, i + 1, i, elapsed)
    ELSE IF last = 0 THEN Ok(kf[i].value)
    ELSE LET delta == elapsed - kf[last].key_time
             total == kf[i].key_time - kf[last].key_time
             time == ease(kf[i].easing, delta, total)
         IN  Ok(IntAnimate(kf[last].value, kf[i].value, time[1], time[2]))

KeyFrameAnimate(a, elapsed) ==
    IF elapsed < a.length THEN KeyFrameScan(a.key_frames, 1, 0, elapsed)
    ELSE Ok(a.key_frames[Len(a.key_frames)].value)

-----------------------------------------------------------------------------
(* duration() and animate() of every node *)

\* a faulty PrimitiveDuration: the delay is not added
PrimitiveDuration_without_delay(a) ==
    IF IsSome(a.duration)
    THEN Some(IF IsSome(a.opt.skip)
              THEN (IF a.duration[1] > a.opt.skip[1] THEN a.duration[1] - a.opt.skip[1]
                                                     ELSE DURATION_ZERO)
              ELSE a.duration[1])
    ELSE None

\* Primitive::duration: the repeated duration with the delay added and the skip removed
PrimitiveDuration(a) ==
    IF IsSome(a.duration)
    THEN LET delayed == IF IsSome(a.opt.delay) THEN a.duration[1] + a.opt.delay[1]
                        ELSE a.duration[1]
         IN  Some(IF IsSome(a.opt.skip)
                  THEN (IF delayed > a.opt.skip[1] THEN delayed - a.opt.skip[1]
                                                   ELSE DURATION_ZERO)
                  ELSE delayed)
    ELSE None

\* Primitive::animate from "calc normalized time" on: elapsed is already limited
PrimitiveNormalized(a, elapsed) ==
    LET count == elapsed \div a.opt.duration
        rem == elapsed % a.opt.duration
        time == IF count > 0 /\ rem = 0 THEN <<1, 1>> ELSE <<rem, a.opt.duration>>
        eased == ease(a.opt.easing, time[1], time[2])
        p == eased[1]
        q == eased[2]
    IN  IF a.opt.auto_reverse
        THEN (IF 2 * p > q THEN IntAnimate(a.opt.to, a.opt.from, 2 * p - q, q)
                           ELSE IntAnimate(a.opt.from, a.opt.to, 2 * p, q))
        ELSE IntAnimate(a.opt.from, a.opt.to, p, q)

\* a faulty PrimitiveAnimate: the elapsed time is not limited to the repeat limit
PrimitiveAnimate_unlimited(a, elapsed0) ==
    LET skipped == IF IsSome(a.opt.skip) THEN elapsed0 + a.opt.skip[1] ELSE elapsed0
        delayed == IF IsSome(a.opt.delay)
                   THEN (IF skipped > a.opt.delay[1] THEN skipped - a.opt.delay[1]
                                                     ELSE DURATION_ZERO)
                   ELSE skipped
    IN  IF IsSome(a.duration) /\ a.duration[1] = DURATION_ZERO THEN Ok(a.opt.from)
        ELSE Ok(PrimitiveNormalized(a, delayed))

\* Primitive::animate
PrimitiveAnimate(a, elapsed0) ==
    LET skipped == IF IsSome(a.opt.skip) THEN elapsed0 + a.opt.skip[1] ELSE elapsed0
        delayed == IF IsSome(a.opt.delay)
                   THEN (IF skipped > a.opt.delay[1] THEN skipped - a.opt.delay[1]
                                                     ELSE DURATION_ZERO)
                   ELSE skipped
    IN  IF IsSome(a.duration) /\ a.duration[1] = DURATION_ZERO THEN Ok(a.opt.from)
        ELSE LET elapsed == IF IsSome(a.duration) /\ delayed > a.duration[1]
                            THEN a.duration[1] ELSE delayed
             IN  Ok(PrimitiveNormalized(a, elapsed))

\* Delay::delay
DelayOf(a) == IF a.delay > DURATION_ZERO THEN a.delay ELSE DURATION_ZERO

\* Scale::duration, given the source's duration
ScaleDuration(a, src_duration) ==
    IF IsSome(src_duration)
    THEN Some(IF src_duration[1] = DURATION_ZERO \/ a.num = 0 THEN DURATION_ZERO
              ELSE div_f64(src_duration[1], a.num, a.den))
    ELSE None

\* Take::duration, given the source's duration
TakeDuration(a, src_duration) ==
    IF a.length > DURATION_ZERO /\ IsSome(src_duration) /\ a.length >= src_duration[1]
    THEN Some(src_duration[1])
    ELSE Some(a.length)

\* StepAnimation::new(src).interval(interval) over a Vec: src is the sequence items
StepNew(items, interval) == [kind |-> "Step", items |-> items, interval |-> interval]

\* StepAnimation::duration, Cursor::size of a Vec being Some(len)
StepDuration(a) ==
    IF a.interval = DURATION_ZERO THEN Some(DURATION_ZERO)
    ELSE Some(a.interval * Len(a.items))

\* Cursor::index of a Vec: self[n].to_owned(), which panics out of bounds
CursorIndex(items, n) == IF n < Len(items) THEN Ok(items[n + 1]) ELSE Panic

\* StepAnimation::animate: the index n asked of the cursor
StepIndex(a, elapsed) ==
    LET duration == StepDuration(a)[1]
    IN  IF duration = DURATION_ZERO THEN 0
        ELSE IF elapsed >= duration THEN Len(a.items)
        ELSE elapsed \div a.interval

\* StepAnimation::animate
StepAnimate(a, elapsed) == CursorIndex(a.items, StepIndex(a, elapsed))

\* a faulty SeekDuration: skipping past the end is not floored at zero
SeekDuration_unfloored(a, src_duration) ==
    IF IsSome(src_duration) THEN Some(src_duration[1] - a.progress) ELSE None

\* Seek::duration, given the source's duration
SeekDuration(a, src_duration) ==
    IF IsSome(src_duration)
    THEN Some(IF src_duration[1] > a.progress THEN src_duration[1] - a.progress
                                              ELSE DURATION_ZERO)
    ELSE None

\* BaseAnimation::duration
RECURSIVE Duration(_)
Duration(a) ==
    CASE a.kind = "Primitive" -> PrimitiveDuration(a)
      [] a.kind = "KeyFrames" -> Some(a.length)
      [] a.kind = "Step" -> StepDuration(a)
      [] a.kind = "Delay" ->
            LET d == Duration(a.src) IN IF IsSome(d) THEN Some(DelayOf(a) + d[1]) ELSE None
      [] a.kind = "Seek" -> SeekDuration(a, Duration(a.src))
      [] a.kind = "Scale" -> ScaleDuration(a, Duration(a.src))
      [] a.kind = "Repeat" -> a.duration
      [] a.kind = "Take" -> TakeDuration(a, Duration(a.src))
      [] a.kind = "Map" -> Duration(a.src)
      [] a.kind = "Cache" -> Duration(a.src)
      [] a.kind = "Chain" ->
            LET first == Duration(a.first)
                second == Duration(a.second)
            IN  IF IsSome(first) /\ IsSome(second) THEN Some(first[1] + second[1]) ELSE None
      [] a.kind = "Parallel" ->
            LET first == Duration(a.first)
                second == Duration(a.second)
            IN  IF IsSome(first) /\ IsSome(second) THEN Some(Max(first[1], second[1])) ELSE None

\* SeekFrom::Begin(p), SeekFrom::End(p), SeekFrom::Percent(n4 / 4)
SeekBegin(p) == [tag |-> "Begin", p |-> p]
SeekEnd(p) == [tag |-> "End", p |-> p]
SeekPercent(n4) == [tag |-> "Percent", p |-> n4]

\* Seek::new for Begin, and for End and Percent once their checks have passed
\* (a bounded source, a percent in [-1, 1]); duration.mul_f32(n4 / 4) in ticks
SeekNew(src, seek) ==
    [kind |-> "Seek", src |-> src,
     progress |->
        CASE seek.tag = "Begin" -> seek.p
          [] seek.tag = "End" ->
                LET duration == Duration(src)[1]
                IN  IF duration > seek.p THEN duration - seek.p ELSE DURATION_ZERO
          [] seek.tag = "Percent" ->
                LET duration == Duration(src)[1]
                IN  IF seek.p < 0 THEN (duration * (4 + seek.p)) \div 4
                    ELSE (duration * seek.p) \div 4]

\* a faulty seek: the percent is not checked against [-1, 1]
seek_any_percent(src, s) ==
    IF s.tag \in { "End", "Percent" } /\ Duration(src) = None THEN Panic
    ELSE Ok(SeekNew(src, s))

\* Animation::seek: Seek::new with its panic!s and its assert!; Ok(node) or Panic
seek(src, s) ==
    IF s.tag \in { "End", "Percent" } /\ Duration(src) = None THEN Panic
    ELSE IF s.tag = "Percent" /\ ~(-4 <= s.p /\ s.p <= 4) THEN Panic
    ELSE Ok(SeekNew(src, s))

\* Animation::skip: Seek::new(self, SeekFrom::Begin(progress))
skip(src, progress) == seek(src, SeekBegin(progress))

\* Animation::scale with scale = num / den: assert!(scale >= 0.0) in Scale::new
scale(src, num, den) == IF num >= 0 THEN Ok(ScaleNew(src, num, den)) ELSE Panic

\* Animation::speed_up with ratio = num / den: assert!(ratio > 0.0), scale = 1.0 / ratio
speed_up(src, num, den) == IF num > 0 THEN scale(src, den, num) ELSE Panic

\* builder::key_frames: Builder::build with the assert!s of cvt_from and of build
key_frames(frames) ==
    IF \E i \in 1..Len(frames) :
          /\ frames[i].key_time.tag = "Percent"
          /\ ~(0 <= frames[i].key_time.n4 /\ frames[i].key_time.n4 <= 4)
    THEN Panic
    ELSE IF Len(frames) = 0 THEN Panic
    ELSE Ok(KeyFramesBuild(frames))

\* Repeat::new
RepeatNew(src, repeat) ==
    [kind |-> "Repeat", src |-> src, repeat |-> repeat,
     duration |->
        LET d == Duration(src)
        IN  IF IsSome(d)
            THEN (IF d[1] = DURATION_ZERO THEN Some(DURATION_ZERO)
                  ELSE IF repeat.tag = "Count" THEN Some(mul_f32(d[1], repeat.n2))
                  ELSE None)
            ELSE None]

\* a faulty RepeatElapsed: a multiple of the simple duration starts the next cycle
RepeatElapsed_wraps(a, simple_duration, elapsed0) ==
    LET elapsed == IF IsSome(a.duration) /\ elapsed0 > a.duration[1]
                   THEN a.duration[1] ELSE elapsed0
    IN  IF simple_duration = DURATION_ZERO THEN None
        ELSE Some(elapsed % simple_duration)

\* Repeat::animate over a bounded source: the elapsed time handed to the source,
\* or None when Duration::mul_f64 panics (0.0 / 0.0 is NaN for a zero-length source)
RepeatElapsed(a, simple_duration, elapsed0) ==
    LET elapsed == IF IsSome(a.duration) /\ elapsed0 > a.duration[1]
                   THEN a.duration[1] ELSE elapsed0
    IN  IF simple_duration = DURATION_ZERO THEN None
        ELSE LET count == elapsed \div simple_duration
                 rem == elapsed % simple_duration
             IN  Some(IF count > 0 /\ rem = 0 THEN simple_duration ELSE rem)

\* a faulty ChainSecond: the boundary instant still belongs to the first animation
ChainSecond_after(first, elapsed) == IsSome(first) /\ elapsed > first[1]

\* Chain::animate: whether the second animation is the one evaluated
\* (if let Some(first) = self.first.duration() { if elapsed >= first { .. } })
ChainSecond(first, elapsed) == IsSome(first) /\ elapsed >= first[1]

\* BaseAnimation::animate of the nodes that keep no state
RECURSIVE Animate(_, _)
Animate(a, elapsed) ==
    CASE a.kind = "Primitive" -> PrimitiveAnimate(a, elapsed)
      [] a.kind = "KeyFrames" -> KeyFrameAnimate(a, elapsed)
      [] a.kind = "Step" -> StepAnimate(a, elapsed)
      [] a.kind = "Delay" ->
            Animate(a.src, IF elapsed > DelayOf(a) THEN elapsed - DelayOf(a) ELSE DURATION_ZERO)
      [] a.kind = "Seek" -> Animate(a.src, a.progress + elapsed)
      [] a.kind = "Scale" ->
            IF a.num = 0 THEN Animate(a.src, DURATION_ZERO)
            ELSE Animate(a.src, div_f64(elapsed, a.num, a.den))
      [] a.kind = "Repeat" ->
            LET simple_duration == Duration(a.src)
            IN  IF ~IsSome(simple_duration) THEN Animate(a.src, elapsed)
                ELSE LET e == RepeatElapsed(a, simple_duration[1], elapsed)
                     IN  IF IsSome(e) THEN Animate(a.src, e[1]) ELSE Panic
      [] a.kind = "Take" ->
            LET duration == TakeDuration(a, Duration(a.src))[1]
            IN  IF elapsed > duration THEN Animate(a.src, duration)
                ELSE Animate(a.src, elapsed)
      [] a.kind = "Map" ->
            LET v == Animate(a.src, elapsed)
            IN  IF v = Panic THEN Panic ELSE Ok(MapFn(a.f, v[1]))
      [] a.kind = "Chain" ->
            LET first == Duration(a.first)
            IN  IF ChainSecond(first, elapsed)
                THEN Animate(a.second, elapsed - first[1])
                ELSE Animate(a.first, elapsed)
      [] a.kind = "Parallel" ->
            LET first == Animate(a.first, elapsed)
                second == Animate(a.second, elapsed)
            IN  IF first = Panic \/ second = Panic THEN Panic
                ELSE Ok(<<first[1], second[1]>>)

\* a faulty is_finished: no animation ever ends
is_finished_never(a, elapsed) == FALSE

\* a faulty is_finished: an elapsed equal to the duration is not the end
is_finished_strict(a, elapsed) ==
    LET d == Duration(a) IN IF IsSome(d) THEN elapsed > d[1] ELSE FALSE

\* IsFinished::is_finished
is_finished(a, elapsed) ==
    LET d == Duration(a) IN IF IsSome(d) THEN elapsed >= d[1] ELSE FALSE

\* Cache::animate: the value returned and the memo cell the call leaves
CacheAnimate(a, cell, elapsed0) ==
    LET duration == Duration(a)
        elapsed == IF IsSome(duration) /\ elapsed0 > duration[1] THEN duration[1]
                   ELSE elapsed0
    IN  IF IsSome(cell) /\ cell[1][1] = elapsed
        THEN [value |-> Ok(cell[1][2]), cell |-> cell]
        ELSE LET value == Animate(a.src, elapsed)
             IN  IF value = Panic THEN [value |-> Panic, cell |-> cell]
                 ELSE [value |-> value, cell |-> Some(<<elapsed, value[1]>>)]

\* animate() of the animation a caller holds: a Cache at the root reads and writes
\* its cell, every other node leaves it alone
AnimateRoot(a, cell, elapsed) ==
    IF a.kind = "Cache" THEN CacheAnimate(a, cell, elapsed)
    ELSE [value |-> Animate(a, elapsed), cell |-> cell]

-----------------------------------------------------------------------------
(* The Timeline: State and the operations on it *)

Idle == [tag |-> "Idle"]
Animating(time, elapsed) == [tag |-> "Animating", time |-> time, elapsed |-> elapsed]
Paused(elapsed) == [tag |-> "Paused", elapsed |-> elapsed]
Completed(elapsed) == [tag |-> "Completed", elapsed |-> elapsed]

\* a faulty accumulated: the elapsed kept across a pause is dropped
accumulated_open_interval(st, at) == at - st.time

\* the accumulated time of State::Animating { time, elapsed } read at `at`:
\* if let Some(elapsed) = elapsed { elapsed + (at - time) } else { at - time }
accumulated(st, at) ==
    IF IsSome(st.elapsed) THEN st.elapsed[1] + (at - st.time) ELSE at - st.time

\* Timeline::begin
begin(st, at) == Animating(at, None)

\* a faulty stop: the open interval of an Animating Timeline is not folded in
stop_without_fold(st, at) ==
    IF st.tag \in { "Animating", "Paused" } THEN Completed(st.elapsed) ELSE st

\* Timeline::stop
stop(st, at) ==
    CASE st.tag = "Animating" -> Completed(Some(accumulated(st, at)))
      [] st.tag = "Paused" -> Completed(st.elapsed)
      [] OTHER -> st

\* a faulty pause: a Completed Timeline is paused too
pause_completed(st, at) ==
    CASE st.tag = "Animating" ->
            Paused(Some(IF IsSome(st.elapsed) THEN st.elapsed[1] + (at - st.time)
                        ELSE at - st.time))
      [] st.tag = "Completed" -> Paused(st.elapsed)
      [] OTHER -> st

\* Timeline::pause
pause(st, at) ==
    IF st.tag = "Animating" THEN Paused(Some(accumulated(st, at))) ELSE st

\* a faulty resume: a Paused Timeline is restarted from zero
resume_restarts(st, at) == Animating(at, None)

\* Timeline::resume
resume(st, at) ==
    IF st.tag = "Paused" THEN Animating(at, st.elapsed) ELSE begin(st, at)

\* Timeline::status
status(st) == st.tag

\* the elapsed time Timeline::value hands to animate()
value_elapsed(st, at) ==
    CASE st.tag = "Idle" -> DURATION_ZERO
      [] st.tag = "Animating" -> accumulated(st, at)
      [] OTHER -> IF IsSome(st.elapsed) THEN st.elapsed[1] ELSE DURATION_ZERO

\* a faulty value: reading an Animating Timeline re-anchors it at `at`
value_reanchors(st, a, c, at) ==
    LET r == AnimateRoot(a, c, value_elapsed(st, at))
    IN  [state |-> IF st.tag = "Animating"
                   THEN Animating(at, Some(value_elapsed(st, at))) ELSE st,
         value |-> r.value, cell |-> r.cell]

\* Timeline::value: the state it leaves, the value it returns and the memo cell
value(st, a, c, at) ==
    LET r == AnimateRoot(a, c, value_elapsed(st, at))
    IN  [state |-> st, value |-> r.value, cell |-> r.cell]

\* a faulty update_with_time: a Paused Timeline past the end is completed
update_completes_paused(st, a, at) ==
    LET elapsed == value_elapsed(st, at)
    IN  IF st.tag \in { "Animating", "Paused" } /\ is_finished(a, elapsed)
        THEN [state |-> Completed(Some(elapsed)), status |-> "Completed"]
        ELSE [state |-> st, status |-> st.tag]

\* Timeline::update_with_time: the state it leaves and the Status it returns
update_with_time(st, a, at) ==
    IF st.tag = "Animating"
    THEN LET elapsed == accumulated(st, at)
         IN  IF is_finished(a, elapsed)
             THEN [state |-> Completed(Some(elapsed)), status |-> "Completed"]
             ELSE [state |-> st, status |-> "Animating"]
    ELSE [state |-> st, status |-> st.tag]

-----------------------------------------------------------------------------
(* The state machine *)

VARIABLES
    now,        \* the clock: what Instant::now() reads
    animation,  \* Timeline::animation, and the animation asked directly
    cell,       \* Cache::cell of a Cache at the root of `animation`
    state,      \* Timeline::state
    lastOp,     \* the operation called last ("tick": the clock advanced since)
    ret,        \* the Status that operation returned, "None" when it returns none
    val,        \* Some(outcome) when that operation was value() or animate()
    asked,      \* the argument of the last call: an elapsed time, or a timeline's id
    played,     \* history: clock time spent Animating since the last (re)start
    idle,       \* history: clock time spent Paused since the last (re)start
    ID_GEN,     \* the static ID_GEN: the value of the AtomicUsize
    constructing, \* per thread: Some(id) between the fetch_add of Timeline::new and its return
    built,      \* history: <<thread, id>> of every Timeline constructed, in order of return
    inners,     \* per thread-local timeline: its Inner { timeline, cache, scheduled }
    registry,   \* the keys of the HashMap behind Shared
    batch       \* Some(locals of Shared::update) while its loop runs, None otherwise

timeline_vars == <<now, animation, cell, state, lastOp, ret, val, asked, played, idle>>
id_vars == <<ID_GEN, constructing, built>>
local_vars == <<inners, registry, batch>>
vars == <<timeline_vars, id_vars, local_vars>>

\* Options::new(0, 12).easing(linear()).duration(d).repeat(r).build()
Linear(d, r) ==
    PrimitiveNew(Options(0, 12, d, r, FALSE, None, None, "linear"))

\* the animations a Timeline of the model wraps: one second long, unbounded,
\* zero-length, one second long behind a cache, and three steps of one tick
TimelineAnimations ==
    { Linear(DEFAULT_ANIMATION_DURATION, Count(2)),
      Linear(DEFAULT_ANIMATION_DURATION, Forever),
      Linear(DURATION_ZERO, Count(2)),
      CacheNew(Linear(DEFAULT_ANIMATION_DURATION, Count(2))),
      StepNew(<<10, 20, 30>>, 1) }

-----------------------------------------------------------------------------
(* Timeline ids: Timeline::new on several threads *)

\* the threads that construct Timelines
Threads == 1..3

\* a faulty fetch_add: the increment is lost
fetch_add_lost(current, n) == [value |-> current, previous |-> current]

\* AtomicUsize::fetch_add(n, Relaxed): one atomic read-modify-write that leaves
\* current + n and returns the previous value (it wraps at usize::MAX, which the
\* counter stays far below for MaxTimelines constructions)
fetch_add(current, n) == [value |-> current + n, previous |-> current]

\* static ID_GEN: AtomicUsize = AtomicUsize::new(1), and no Timeline under way
InitIds ==
    /\ ID_GEN = 1
    /\ constructing = [t \in Threads |-> None]
    /\ built = << >>

-----------------------------------------------------------------------------
(* The thread-local timelines and their registry (src/src/local/animator.rs) *)

\* the ids of the thread-local timelines of the model
LocalIds == { 1, 2 }

\* the animation behind each: one second long, and unbounded
LocalAnimation(id) ==
    IF id = 1 THEN Linear(DEFAULT_ANIMATION_DURATION, Count(2))
    ELSE Linear(DEFAULT_ANIMATION_DURATION, Forever)

\* Inner { timeline, cache, scheduled }; the cache is Some(<<time, status, value>>)
Inner(timeline, cache, scheduled) ==
    [timeline |-> timeline, cache |-> cache, scheduled |-> scheduled]

\* Inner::update(time), the clock reading `at` when it calls timeline.value():
\* the Inner it leaves and the Status it returns
InnerUpdate(inner, a, time, at) ==
    LET u == update_with_time(inner.timeline, a, time)
        v == value(u.state, a, None, at)
    IN  [inner |-> [inner EXCEPT !.timeline = u.state,
                                 !.cache = Some(<<time, u.status, v.value>>)],
         status |-> u.status]

\* TimelineControl::on_schedule and on_remove for Rc<Mutex<Inner<T>>>
on_schedule(inner) == [inner EXCEPT !.scheduled = TRUE]
on_remove(inner) == [inner EXCEPT !.scheduled = FALSE]

\* Shared::schedule: the registry and the Inner it leaves
schedule(reg, inner, id) ==
    IF id \notin reg THEN [registry |-> reg \cup { id }, inner |-> on_schedule(inner)]
    ELSE [registry |-> reg, inner |-> inner]

\* Shared::cancel
cancel(reg, inner, id) ==
    IF id \in reg THEN [registry |-> reg \ { id }, inner |-> on_remove(inner)]
    ELSE [registry |-> reg, inner |-> inner]

\* TimelineEx::status for TimelineWrapper
local_status(inner) ==
    IF inner.cache /= None THEN inner.cache[1][2] ELSE status(inner.timeline)

\* TimelineEx::value for TimelineWrapper
local_value(inner, a, at) ==
    IF inner.cache /= None THEN inner.cache[1][3]
    ELSE value(inner.timeline, a, None, at).value

\* TimelineEx::begin for TimelineWrapper
local_begin(reg, inner, id, at) ==
    schedule(reg, [inner EXCEPT !.timeline = begin(@, at), !.cache = None,
                                !.scheduled = TRUE], id)

\* TimelineEx::stop for TimelineWrapper
local_stop(reg, inner, id, a, at) ==
    LET stopped == [inner EXCEPT !.timeline = stop(@, at)]
        updated == InnerUpdate(stopped, a, at, at).inner
    IN  cancel(reg, [updated EXCEPT !.cache = None], id)

\* TimelineEx::pause for TimelineWrapper
local_pause(reg, inner, id, a, at) ==
    LET paused == [inner EXCEPT !.timeline = pause(@, at)]
    IN  cancel(reg, InnerUpdate(paused, a, at, at).inner, id)

\* TimelineEx::resume for TimelineWrapper
local_resume(reg, inner, id, at) ==
    schedule(reg, [inner EXCEPT !.timeline = resume(@, at), !.scheduled = TRUE], id)

\* a faulty evicted: nothing is evicted
evicted_never(s) == FALSE

\* Shared::update: whether a timeline that returned Status s is put in `holder`
evicted(s) == s \in { "Completed", "Paused" }

\* TimelineWrapper::new for every timeline, and an empty registry
InitLocal ==
    /\ inners = [id \in LocalIds |-> Inner(Idle, None, FALSE)]
    /\ registry = {}
    /\ batch = None

-----------------------------------------------------------------------------
(* The Timeline driven by its owner *)

\* Timeline::new
Init ==
    /\ now = 0
    /\ animation \in TimelineAnimations
    /\ cell = None
    /\ state = Idle
    /\ lastOp = "new"
    /\ ret = "None"
    /\ val = None
    /\ asked = 0
    /\ played = 0
    /\ idle = 0
    /\ InitIds /\ InitLocal

\* the clock advances by dt
Tick(dt) ==
    /\ now + dt <= MaxClock
    /\ now' = now + dt
    /\ played' = IF state.tag = "Animating" THEN played + dt ELSE played
    /\ idle' = IF state.tag = "Paused" THEN idle + dt ELSE idle
    /\ lastOp' = "tick"
    /\ ret' = "None" /\ val' = None
    /\ UNCHANGED <<animation, cell, state, asked>>
    /\ UNCHANGED <<id_vars, local_vars>>

Begin ==
    /\ state' = begin(state, now)
    /\ lastOp' = "begin"
    /\ ret' = "None" /\ val' = None
    /\ played' = 0 /\ idle' = 0
    /\ UNCHANGED <<now, animation, cell, asked>>
    /\ UNCHANGED <<id_vars, local_vars>>

Stop ==
    /\ state' = stop(state, now)
    /\ lastOp' = "stop"
    /\ ret' = "None" /\ val' = None
    /\ UNCHANGED <<now, animation, cell, asked, played, idle>>
    /\ UNCHANGED <<id_vars, local_vars>>

Pause ==
    /\ state' = pause(state, now)
    /\ lastOp' = "pause"
    /\ ret' = "None" /\ val' = None
    /\ UNCHANGED <<now, animation, cell, asked, played, idle>>
    /\ UNCHANGED <<id_vars, local_vars>>

Resume ==
    /\ state' = resume(state, now)
    /\ lastOp' = "resume"
    /\ ret' = "None" /\ val' = None
    /\ played' = IF state.tag = "Paused" THEN played ELSE 0
    /\ idle' = IF state.tag = "Paused" THEN idle ELSE 0
    /\ UNCHANGED <<now, animation, cell, asked>>
    /\ UNCHANGED <<id_vars, local_vars>>

\* Timeline::update: update_with_time(Instant::now())
Update ==
    LET r == update_with_time(state, animation, now)
    IN  /\ state' = r.state
        /\ ret' = r.status
        /\ lastOp' = "update"
        /\ val' = None
        /\ UNCHANGED <<now, animation, cell, asked, played, idle>>
        /\ UNCHANGED <<id_vars, local_vars>>

\* Timeline::status
Status ==
    /\ ret' = status(state)
    /\ lastOp' = "status"
    /\ val' = None
    /\ UNCHANGED <<now, animation, cell, state, asked, played, idle>>
    /\ UNCHANGED <<id_vars, local_vars>>

Value ==
    LET r == value(state, animation, cell, now)
    IN  /\ state' = r.state
        /\ val' = Some(r.value)
        /\ cell' = r.cell
        /\ lastOp' = "value"
        /\ ret' = "None"
        /\ UNCHANGED <<now, animation, asked, played, idle>>
        /\ UNCHANGED <<id_vars, local_vars>>

Next ==
    \/ \E dt \in 1..2 : Tick(dt)
    \/ Begin
    \/ Stop
    \/ Pause
    \/ Resume
    \/ Update
    \/ Status
    \/ Value

Spec == Init /\ [][Next]_vars

-----------------------------------------------------------------------------
(* The animations asked directly *)

\* every Options the model builds a primitive from
AllOptions ==
    { Options(ft[1], ft[2], d, r, ar, sk, dl, f) :
        ft \in { <<0, 12>>, <<9, 1>> }, d \in { 0, 3, 4 },
        r \in { Count(0), Count(2), Count(3), Forever }, ar \in BOOLEAN,
        sk \in { None, Some(1) }, dl \in { None, Some(2) }, f \in { "linear", "quad" } }

Primitives == { PrimitiveNew(o) : o \in AllOptions }

KeyFrameAnimations ==
    { KeyFramesBuild(<<KeyFrame(6, KeyTimePercent(2), "linear"),
                       KeyFrame(12, KeyTimeDuration(4), "linear")>>),
      KeyFramesBuild(<<KeyFrame(12, KeyTimeDuration(4), "quad"),
                       KeyFrame(0, KeyTimeDuration(0), "linear"),
                       KeyFrame(3, KeyTimePercent(1), "linear")>>),
      KeyFramesBuild(<<KeyFrame(5, KeyTimePercent(2), "linear")>>),
      KeyFramesBuild(<<KeyFrame(7, KeyTimeDuration(0), "linear")>>) }

\* the sources the combinators are applied to
Sources ==
    { Linear(4, Count(2)),
      Linear(4, Forever),
      Linear(0, Count(2)),
      PrimitiveNew(Options(0, 12, 4, Count(3), TRUE, None, None, "linear")),
      PrimitiveNew(Options(9, 1, 3, Count(4), FALSE, Some(1), Some(2), "quad")) }
    \cup { k \in KeyFrameAnimations : Len(k.key_frames) = 2 }

\* the combinators that transform time only, over the sources in S
TimeCombinators(S) ==
    { DelayNew(x, d) : x \in S, d \in { 0, 2 } }
    \cup { SeekNew(x, SeekBegin(p)) : x \in S, p \in { 1, 5 } }
    \cup { SeekNew(x, SeekEnd(1)) : x \in { y \in S : IsSome(Duration(y)) } }
    \cup { RepeatNew(x, r) : x \in S, r \in { Count(0), Count(3), Count(4), Forever } }
    \cup { TakeNew(x, d) : x \in S, d \in { 0, 2, 6 } }

ScaleCombinators(S) ==
    { ScaleNew(x, k[1], k[2]) : x \in S, k \in { <<0, 1>>, <<1, 2>>, <<2, 1>> } }

MapCombinators(S) == { MapNew(x, f) : x \in S, f \in { "neg", "third" } }

\* one combinator over the sources
Level1 ==
    TimeCombinators(Sources) \cup MapCombinators(Sources)
    \cup { ChainNew(x, y) : x \in Sources, y \in Sources }

Pairs == { ParallelNew(x, y) : x \in Sources, y \in Sources }

\* a second combinator over the first
Level2 ==
    TimeCombinators(Level1) \cup MapCombinators(Level1)
    \cup { ChainNew(x, y) : x \in Sources, y \in TimeCombinators(Sources) }
    \cup { ChainNew(x, y) : x \in TimeCombinators(Sources), y \in Sources }
    \cup TimeCombinators(Pairs)

\* the animations built without scale()
Unscaled == Primitives \cup KeyFrameAnimations \cup Level1 \cup Pairs \cup Level2

\* scale() over a source, and a combinator over or under scale()
Scaled ==
    ScaleCombinators(Sources) \cup TimeCombinators(ScaleCombinators(Sources))
    \cup ScaleCombinators(TimeCombinators(Sources))

\* the animations of the crate's tests, with one second for 2 ticks
Examples ==
    { Linear(2, Count(4)),                                     \* test_primitive_repeat
      ChainNew(Linear(2, Count(2)), Linear(2, Count(2))),      \* test_chain
      ParallelNew(Linear(2, Count(2)), Linear(4, Count(2))) }  \* test_parallel

\* steps(src, interval) over a Vec of 1 to 3 items
Steps ==
    { StepNew(items, i) : items \in { <<10>>, <<10, 20>>, <<10, 20, 30>> }, i \in { 0, 1, 2 } }

AnimationSet == Unscaled \cup Scaled \cup Examples \cup Steps

InitAnim ==
    /\ now = 0
    /\ animation \in AnimationSet \cup { CacheNew(x) : x \in AnimationSet }
    /\ cell = None
    /\ state = Idle
    /\ lastOp = "new"
    /\ ret = "None"
    /\ val = None
    /\ asked = 0
    /\ played = 0
    /\ idle = 0
    /\ InitIds /\ InitLocal

\* animation.animate(elapsed), called directly
Ask(elapsed) ==
    LET r == AnimateRoot(animation, cell, elapsed)
    IN  /\ val' = Some(r.value)
        /\ cell' = r.cell
        /\ asked' = elapsed
        /\ lastOp' = "animate"
        /\ UNCHANGED <<now, animation, state, ret, played, idle>>
        /\ UNCHANGED <<id_vars, local_vars>>

NextAnim == \E elapsed \in 0..MaxElapsed : Ask(elapsed)

SpecAnim == InitAnim /\ [][NextAnim]_vars

-----------------------------------------------------------------------------
(* Animatable::animate asked directly *)

\* endpoints of each built-in type: integers, floats (as fractions), chars (as
\* code points: 'a' is 97, 'e' is 101, 0xD7FF is 55295, 0xE000 is 57344)
IntEndpoints == { -4, -3, 0, 5, 12 }
FloatEndpoints == { <<0, 1>>, <<1, 1>>, <<-5, 2>> }
CharEndpoints == { 97, 101, 55295, 57344 }

\* a pair of endpoints of one type: what from.animate(&to, time) is called on
Blend(ty, from, to) == [kind |-> "Animatable", ty |-> ty, from |-> from, to |-> to]

InitValue ==
    /\ now = 0
    /\ \/ \E x \in IntEndpoints, y \in IntEndpoints : animation = Blend("int", x, y)
       \/ \E x \in FloatEndpoints, y \in FloatEndpoints : animation = Blend("float", x, y)
       \/ \E x \in BOOLEAN, y \in BOOLEAN : animation = Blend("bool", x, y)
       \/ \E x \in CharEndpoints, y \in CharEndpoints : animation = Blend("char", x, y)
       \/ \E x \in IntEndpoints \X BOOLEAN, y \in IntEndpoints \X BOOLEAN :
              animation = Blend("int_bool", x, y)
    /\ cell = None
    /\ state = Idle
    /\ lastOp = "new"
    /\ ret = "None"
    /\ val = None
    /\ asked = 0
    /\ played = 0
    /\ idle = 0
    /\ InitIds /\ InitLocal

\* animation.from.animate(&animation.to, p / TimeSteps)
AnimateValue(p) ==
    /\ val' = Some(Ok(ValueAnimate(animation.ty, animation.from, animation.to, p, TimeSteps)))
    /\ asked' = p
    /\ lastOp' = "blend"
    /\ UNCHANGED <<now, animation, cell, state, ret, played, idle>>
    /\ UNCHANGED <<id_vars, local_vars>>

\* utils::check_time(time) in a debug build, time = p/q with q > 0: the
\* debug_assert! is on `time >= 0.0 || time <= 1.0`; a pass returns the time
check_time(p, q) == IF p >= 0 \/ p <= q THEN Ok(<<p, q>>) ELSE Panic

\* the normalized times handed to check_time: from -1 to 2, in steps of 1/TimeSteps
CheckedTimes == (-TimeSteps)..(2 * TimeSteps)

\* the first statement of the numeric animate and of EasingMode::apply:
\* crate::utils::check_time(p / TimeSteps)
CheckTime(p) ==
    /\ val' = Some(check_time(p, TimeSteps))
    /\ asked' = p
    /\ lastOp' = "check_time"
    /\ UNCHANGED <<now, animation, cell, state, ret, played, idle>>
    /\ UNCHANGED <<id_vars, local_vars>>

NextValue ==
    \/ \E p \in 0..TimeSteps : AnimateValue(p)
    \/ \E p \in CheckedTimes : CheckTime(p)

SpecValue == InitValue /\ [][NextValue]_vars

-----------------------------------------------------------------------------
(* Construction: a constructor is called, then the animation it built is asked *)

\* a constructor call not yet made, a call that panicked, a call that built node
Call(method, src, arg) == [kind |-> "Call", method |-> method, src |-> src, arg |-> arg]
Panicked(call) == [kind |-> "Panicked", call |-> call]
Built(call, node) == [kind |-> "Built", call |-> call, node |-> node]

\* the sources the constructors are called on
BuildSources == Sources

\* the lists given to key_frames(): empty, valid, and with a percent out of range;
\* among the valid ones the list of test_key_frames, lists given out of order,
\* a list of percents alone and lists with two frames at one time
BuildFrames ==
    { << >>,
      <<KeyFrame(5, KeyTimePercent(2), "linear")>>,
      <<KeyFrame(5, KeyTimePercent(5), "linear")>>,
      <<KeyFrame(5, KeyTimePercent(-1), "linear")>>,
      <<KeyFrame(6, KeyTimeDuration(4), "linear"), KeyFrame(3, KeyTimePercent(6), "linear")>>,
      <<KeyFrame(6, KeyTimeDuration(4), "linear"), KeyFrame(3, KeyTimePercent(0), "linear")>>,
      <<KeyFrame(6, KeyTimePercent(2), "linear"), KeyFrame(12, KeyTimeDuration(4), "linear")>>,
      <<KeyFrame(12, KeyTimeDuration(4), "quad"), KeyFrame(0, KeyTimeDuration(0), "linear"),
        KeyFrame(4, KeyTimePercent(1), "linear")>>,
      <<KeyFrame(12, KeyTimeDuration(8), "linear"), KeyFrame(4, KeyTimePercent(3), "quad"),
        KeyFrame(0, KeyTimePercent(1), "linear")>>,
      <<KeyFrame(8, KeyTimePercent(4), "linear"), KeyFrame(2, KeyTimePercent(0), "quad")>>,
      <<KeyFrame(3, KeyTimeDuration(2), "linear"), KeyFrame(9, KeyTimePercent(2), "linear"),
        KeyFrame(12, KeyTimeDuration(4), "linear")>>,
      <<KeyFrame(1, KeyTimeDuration(0), "linear"), KeyFrame(7, KeyTimeDuration(0), "linear")>> }

InitBuild ==
    /\ now = 0
    /\ \/ \E x \in BuildSources, p \in { 1, 5 } :
              animation = Call("seek", x, SeekBegin(p))
       \/ \E x \in BuildSources, p \in { 1, 5 } :
              animation = Call("seek", x, SeekEnd(p))
       \/ \E x \in BuildSources, p \in { 0, 1, 5 } :
              animation = Call("skip", x, p)
       \/ \E x \in BuildSources, n4 \in -5..5 :
              animation = Call("seek", x, SeekPercent(n4))
       \/ \E x \in BuildSources, k \in { <<-1, 1>>, <<0, 1>>, <<1, 2>>, <<2, 1>> } :
              animation = Call("scale", x, k)
       \/ \E x \in BuildSources, k \in { <<-1, 1>>, <<0, 1>>, <<1, 2>>, <<2, 1>> } :
              animation = Call("speed_up", x, k)
       \/ \E frames \in BuildFrames : animation = Call("key_frames", None, frames)
    /\ cell = None
    /\ state = Idle
    /\ lastOp = "new"
    /\ ret = "None"
    /\ val = None
    /\ asked = 0
    /\ played = 0
    /\ idle = 0
    /\ InitIds /\ InitLocal

\* the constructor is called: it returns the animation or panics
Construct ==
    /\ animation.kind = "Call"
    /\ LET c == animation
           r == CASE c.method = "seek" -> seek(c.src, c.arg)
                  [] c.method = "skip" -> skip(c.src, c.arg)
                  [] c.method = "scale" -> scale(c.src, c.arg[1], c.arg[2])
                  [] c.method = "speed_up" -> speed_up(c.src, c.arg[1], c.arg[2])
                  [] c.method = "key_frames" -> key_frames(c.arg)
       IN  animation' = IF r = Panic THEN Panicked(c) ELSE Built(c, r[1])
    /\ lastOp' = "construct"
    /\ UNCHANGED <<now, cell, state, ret, val, asked, played, idle>>
    /\ UNCHANGED <<id_vars, local_vars>>

\* animate(elapsed) of the animation that was built
AskBuilt(elapsed) ==
    /\ animation.kind = "Built"
    /\ val' = Some(Animate(animation.node, elapsed))
    /\ asked' = elapsed
    /\ lastOp' = "animate"
    /\ UNCHANGED <<now, animation, cell, state, ret, played, idle>>
    /\ UNCHANGED <<id_vars, local_vars>>

NextBuild ==
    \/ Construct
    \/ \E elapsed \in 0..MaxElapsed : AskBuilt(elapsed)

SpecBuild == InitBuild /\ [][NextBuild]_vars

-----------------------------------------------------------------------------
(* Timelines constructed by several threads at once *)

\* at most this many Timelines are constructed
MaxTimelines == 5

InitThreads ==
    /\ now = 0
    /\ animation = Linear(DEFAULT_ANIMATION_DURATION, Count(2))
    /\ cell = None
    /\ state = Idle
    /\ lastOp = "new"
    /\ ret = "None"
    /\ val = None
    /\ asked = 0
    /\ played = 0
    /\ idle = 0
    /\ InitIds /\ InitLocal

\* Timeline::new on thread t, up to its ID_GEN.fetch_add(1, Relaxed)
TimelineNewFetch(t) ==
    /\ constructing[t] = None
    /\ Len(built) + Cardinality({ u \in Threads : constructing[u] /= None }) < MaxTimelines
    /\ LET r == fetch_add(ID_GEN, 1)
       IN  /\ ID_GEN' = r.value
           /\ constructing' = [constructing EXCEPT ![t] = Some(r.previous)]
    /\ UNCHANGED <<built, timeline_vars, local_vars>>

\* Timeline::new on thread t returns the Timeline with the id it fetched
TimelineNewReturn(t) ==
    /\ constructing[t] /= None
    /\ built' = Append(built, <<t, constructing[t][1]>>)
    /\ constructing' = [constructing EXCEPT ![t] = None]
    /\ UNCHANGED <<ID_GEN, timeline_vars, local_vars>>

NextThreads ==
    \/ \E t \in Threads : TimelineNewFetch(t)
    \/ \E t \in Threads : TimelineNewReturn(t)

SpecThreads == InitThreads /\ [][NextThreads]_vars

-----------------------------------------------------------------------------
(* The thread-local timelines driven by their owner and by local::update *)

\* the clock of the thread-local timelines never reads more than this
MaxLocalClock == 3

InitRegistry ==
    /\ now = 0
    /\ animation = Linear(DEFAULT_ANIMATION_DURATION, Count(2))
    /\ cell = None
    /\ state = Idle
    /\ lastOp = "new"
    /\ ret = "None"
    /\ val = None
    /\ asked = 0
    /\ played = 0
    /\ idle = 0
    /\ InitIds /\ InitLocal

\* the clock advances by dt, between two calls or between two items of a batch
LocalTick(dt) ==
    /\ now + dt <= MaxLocalClock
    /\ now' = now + dt
    /\ lastOp' = "tick"
    /\ ret' = "None" /\ val' = None
    /\ UNCHANGED <<animation, cell, state, asked, played, idle, id_vars, local_vars>>

\* a call of the owner on timeline id has left the registry and the Inner of r
LocalCall(op, id, r) ==
    /\ batch = None
    /\ inners' = [inners EXCEPT ![id] = r.inner]
    /\ registry' = r.registry
    /\ lastOp' = op
    /\ asked' = id
    /\ ret' = "None" /\ val' = None
    /\ UNCHANGED <<now, animation, cell, state, played, idle, batch, id_vars>>

LocalBegin(id) == LocalCall("begin", id, local_begin(registry, inners[id], id, now))

LocalStop(id) ==
    LocalCall("stop", id, local_stop(registry, inners[id], id, LocalAnimation(id), now))

LocalPause(id) ==
    LocalCall("pause", id, local_pause(registry, inners[id], id, LocalAnimation(id), now))

LocalResume(id) == LocalCall("resume", id, local_resume(registry, inners[id], id, now))

\* Timeline::status of the thread-local timeline id
LocalStatus(id) ==
    /\ batch = None
    /\ ret' = local_status(inners[id])
    /\ lastOp' = "status"
    /\ asked' = id
    /\ val' = None
    /\ UNCHANGED <<now, animation, cell, state, played, idle, id_vars, local_vars>>

\* Timeline::value of the thread-local timeline id
LocalValue(id) ==
    /\ batch = None
    /\ val' = Some(local_value(inners[id], LocalAnimation(id), now))
    /\ lastOp' = "value"
    /\ asked' = id
    /\ ret' = "None"
    /\ UNCHANGED <<now, animation, cell, state, played, idle, id_vars, local_vars>>

\* Shared::update up to its loop: `now` is read once and the registry is locked;
\* registered and updates are history: the keys at the start, the calls per key
SharedUpdateStart ==
    /\ batch = None
    /\ batch' = Some([now |-> now, pending |-> registry, holder |-> {},
                      registered |-> registry, updates |-> [id \in LocalIds |-> 0]])
    /\ lastOp' = "updating"
    /\ ret' = "None" /\ val' = None
    /\ UNCHANGED <<now, animation, cell, state, asked, played, idle, id_vars,
                   inners, registry>>

\* one turn of the loop of Shared::update: item.update(now) for one entry
SharedUpdateItem(id) ==
    /\ batch /= None
    /\ id \in batch[1].pending
    /\ LET r == InnerUpdate(inners[id], LocalAnimation(id), batch[1].now, now)
       IN  /\ inners' = [inners EXCEPT ![id] = r.inner]
           /\ batch' = Some([batch[1] EXCEPT
                               !.pending = @ \ { id },
                               !.holder = IF evicted(r.status) THEN @ \cup { id } ELSE @,
                               !.updates[id] = @ + 1])
    /\ lastOp' = "updating"
    /\ asked' = id
    /\ ret' = "None" /\ val' = None
    /\ UNCHANGED <<now, animation, cell, state, played, idle, id_vars, registry>>

\* Shared::update after its loop: the entries in holder are removed
SharedUpdateEnd ==
    /\ batch /= None
    /\ batch[1].pending = {}
    /\ registry' = registry \ batch[1].holder
    /\ batch' = None
    /\ lastOp' = "update"
    /\ ret' = "None" /\ val' = None
    /\ UNCHANGED <<now, animation, cell, state, asked, played, idle, id_vars, inners>>

NextRegistry ==
    \/ \E dt \in 1..2 : LocalTick(dt)
    \/ \E id \in LocalIds : LocalBegin(id)
    \/ \E id \in LocalIds : LocalStop(id)
    \/ \E id \in LocalIds : LocalPause(id)
    \/ \E id \in LocalIds : LocalResume(id)
    \/ \E id \in LocalIds : LocalStatus(id)
    \/ \E id \in LocalIds : LocalValue(id)
    \/ SharedUpdateStart
    \/ \E id \in LocalIds : SharedUpdateItem(id)
    \/ SharedUpdateEnd

SpecRegistry == InitRegistry /\ [][NextRegistry]_vars

-----------------------------------------------------------------------------
(* The loop of the crate's documentation: update() until Completed *)

\* the animations the loop is run on
LoopAnimations ==
    TimelineAnimations \cup Examples
    \cup { DelayNew(Linear(DEFAULT_ANIMATION_DURATION, Count(3)), 2),
           RepeatNew(StepNew(<<10, 20>>, 1), Count(3)) }

\* Options::begin_animation: Timeline::new, then begin()
InitLoop ==
    /\ now = 0
    /\ animation \in LoopAnimations
    /\ cell = None
    /\ state = begin(Idle, 0)
    /\ lastOp = "begin"
    /\ ret = "None"
    /\ val = None
    /\ asked = 0
    /\ played = 0
    /\ idle = 0
    /\ InitIds /\ InitLocal

\* a value() that panicked has ended the thread: nothing runs after it
LoopPanicked == val = Some(Panic)

\* the clock advances by dt while the loop runs
LoopTick(dt) == ~LoopPanicked /\ Tick(dt)

\* `let status = timeline.update();` while the loop has not met its break
LoopUpdate == ~LoopPanicked /\ state.tag /= "Completed" /\ Update

\* `println!("animated value: {}", timeline.value());`, not reached after the break
LoopValue == ~LoopPanicked /\ state.tag /= "Completed" /\ Value

NextLoop ==
    \/ \E dt \in 1..2 : LoopTick(dt)
    \/ LoopUpdate
    \/ LoopValue

\* the loop keeps running and the clock keeps advancing
SpecLoop ==
    /\ InitLoop /\ [][NextLoop]_vars
    /\ WF_vars(LoopUpdate)
    /\ WF_vars(\E dt \in 1..2 : LoopTick(dt))

-----------------------------------------------------------------------------
(* Properties of the Timeline, checked under Spec *)

\* the animation a Cache at the root wraps, or the animation itself
Source(a) == IF a.kind = "Cache" THEN a.src ELSE a

\* C1: the elapsed time update() and value() use is the clock time the Timeline
\* has spent Animating since the last begin() or restart (`played`); the time
\* that passes while Paused is not counted.  With one tick for 500 ms: after
\* begin, +1, pause, +20, resume, +1, update() on an animation of 2 ticks
\* returns Completed and the accumulated elapsed is 2.
C1_ElapsedIsTimeSpentAnimating ==
    /\ state.tag = "Animating" => accumulated(state, now) = played
    /\ state.tag \in { "Paused", "Completed" } => state.elapsed = Some(played)
    /\ state.tag /= "Idle" => value_elapsed(state, now) = played
    /\ lastOp = "value" => val = Some(Animate(Source(animation), played))
    /\ (/\ lastOp = "update" /\ state.tag /= "Paused"
        /\ Duration(animation) = Some(2) /\ played = 2 /\ idle = 20)
          => (ret = "Completed" /\ state = Completed(Some(2)))

\* the run of the example: 2 ticks played around an idle gap of 20, then update()
C1_Witness ==
    /\ lastOp = "update" /\ ret = "Completed"
    /\ Duration(animation) = Some(2)
    /\ played = 2 /\ idle = 20 /\ now = 22
    /\ state = Completed(Some(2))

\* C2: update() on an Animating Timeline completes it and returns Completed
\* exactly when the accumulated elapsed is >= animation.duration(); otherwise it
\* stays Animating and returns Animating.  An unbounded animation is completed
\* by stop() alone.
C2_UpdateCompletesAtDuration ==
    [][ LET d == Duration(animation)
            finished == IsSome(d) /\ played >= d[1]
        IN  /\ (lastOp' = "update" /\ state.tag = "Animating" /\ finished)
                  => (state' = Completed(Some(played)) /\ ret' = "Completed")
            /\ (lastOp' = "update" /\ state.tag = "Animating" /\ ~finished)
                  => (state' = state /\ ret' = "Animating")
            /\ (d = None /\ state.tag /= "Completed" /\ state'.tag = "Completed")
                  => lastOp' = "stop" ]_vars

\* update() completes an animation of 2 ticks at an elapsed of exactly 2
C2_Witness ==
    /\ lastOp = "update" /\ ret = "Completed"
    /\ Duration(animation) = Some(2)
    /\ state = Completed(Some(2)) /\ idle = 0

\* C3: begin() leaves every state Animating, anchored at the current instant with
\* no accumulated elapsed; resume() does the same from every state but Paused, and
\* from Paused becomes Animating at the current instant keeping the elapsed.
C3_BeginRestartsResumeKeeps ==
    [][ /\ lastOp' = "begin"
              => (state' = Animating(now, None) /\ value_elapsed(state', now') = 0)
        /\ (lastOp' = "resume" /\ state.tag /= "Paused")
              => (state' = Animating(now, None) /\ value_elapsed(state', now') = 0)
        /\ (lastOp' = "resume" /\ state.tag = "Paused")
              => (/\ state' = Animating(now, state.elapsed)
                  /\ value_elapsed(state', now') = value_elapsed(state, now)) ]_vars

\* resume() has reopened a paused Timeline that had played 1 tick
C3_Witness ==
    /\ lastOp = "resume" /\ state.tag = "Animating"
    /\ state.elapsed = Some(1) /\ state.time = now /\ idle > 0

\* C4: stop() completes an Animating Timeline with the open interval folded in
\* and a Paused one with the elapsed it kept; from then on the state, and so what
\* value() returns, changes at no clock reading and under no update(), pause() or
\* stop(), until begin() or resume().
C4_StopFreezes ==
    [][ /\ (lastOp' = "stop" /\ state.tag \in { "Animating", "Paused" })
              => state' = Completed(Some(played))
        /\ (lastOp' = "stop" /\ state.tag = "Paused")
              => state'.elapsed = state.elapsed
        /\ (state.tag = "Completed" /\ lastOp' \notin { "begin", "resume" })
              => (/\ state' = state
                  /\ value_elapsed(state', now') = value_elapsed(state, now))
        /\ (state.tag = "Completed" /\ lastOp' = "value")
              => val' = Some(Animate(Source(animation), state.elapsed[1])) ]_vars

\* value() read after the clock went on, on an unbounded animation stopped at 3
C4_Witness ==
    /\ Duration(animation) = None
    /\ state = Completed(Some(3))
    /\ lastOp = "value" /\ val = Some(Animate(animation, 3))
    /\ now > 5 /\ idle = 0

\* C5: the status changes only along Idle->Animating, Animating->Paused,
\* Animating->Completed, Paused->Animating, Paused->Completed and the restart to
\* Animating by begin()/resume(); nothing leads back to Idle, Paused is entered
\* from Animating only, and pause/stop/update keep a Completed Timeline Completed.
C5_StatusTransitions ==
    [][ LET from == state.tag
            to == state'.tag
        IN  /\ to = "Idle" => from = "Idle"
            /\ (to = "Paused" /\ from /= "Paused")
                  => (from = "Animating" /\ lastOp' = "pause")
            /\ (from = "Completed" /\ lastOp' \in { "pause", "stop", "update" })
                  => to = "Completed"
            /\ from /= to =>
                  \/ to = "Animating" /\ lastOp' \in { "begin", "resume" }
                  \/ from = "Animating" /\ to = "Paused" /\ lastOp' = "pause"
                  \/ from = "Animating" /\ to = "Completed" /\ lastOp' \in { "stop", "update" }
                  \/ from = "Paused" /\ to = "Completed" /\ lastOp' = "stop" ]_vars

\* stop() has completed a Timeline that was paused on the way
C5_Witness ==
    /\ lastOp = "stop" /\ state.tag = "Completed" /\ idle > 0 /\ played > 0

\* C6: pause() in Idle, Paused or Completed, stop() in Idle or Completed and
\* update() in Idle, Paused or Completed leave the state as it is, and update()
\* then returns the current status.
C6_InapplicableOperationsAreNoOps ==
    [][ /\ (lastOp' = "pause" /\ state.tag \in { "Idle", "Paused", "Completed" })
              => state' = state
        /\ (lastOp' = "stop" /\ state.tag \in { "Idle", "Completed" })
              => state' = state
        /\ (lastOp' = "update" /\ state.tag \in { "Idle", "Paused", "Completed" })
              => (state' = state /\ ret' = state.tag) ]_vars

\* update() on a Timeline paused past the end of its animation returned Paused
C6_Witness ==
    /\ lastOp = "update" /\ ret = "Paused"
    /\ state = Paused(Some(3)) /\ Duration(animation) = Some(2)

\* C7: value() and status() change neither the status nor the accumulated
\* elapsed; value() calls that follow one another at one clock reading return the
\* same value; in Idle it is the value at elapsed 0, in Paused and Completed the
\* value at the frozen elapsed.
C7_ReadsArePure ==
    [][ /\ lastOp' \in { "value", "status" }
              => (/\ state' = state
                  /\ value_elapsed(state', now') = value_elapsed(state, now))
        /\ lastOp' = "status" => ret' = state.tag
        /\ (lastOp = "value" /\ lastOp' = "value") => val' = val
        /\ (lastOp' = "value" /\ state.tag = "Idle")
              => val' = Some(Animate(Source(animation), DURATION_ZERO))
        /\ (lastOp' = "value" /\ state.tag \in { "Paused", "Completed" })
              => val' = Some(Animate(Source(animation), state.elapsed[1])) ]_vars

\* value() of a paused Timeline answered from the cache: half way from 0 to 12
C7_Witness ==
    /\ lastOp = "value" /\ state = Paused(Some(1))
    /\ animation.kind = "Cache" /\ cell = Some(<<1, 6>>)
    /\ val = Some(Ok(6))

-----------------------------------------------------------------------------
(* Properties of the animations, checked under SpecAnim *)

\* C8: for every bounded animation built from Primitive, Delay, Seek/Skip,
\* Repeat, Chain, Parallel, Map, Take and key-frame nodes, animate(e) for every
\* e > duration() returns a value, and it is the value animate(duration())
\* returns.
C8_ClampsBeyondDuration ==
    (/\ lastOp = "animate" /\ animation \in Unscaled
     /\ IsSome(Duration(animation)) /\ asked > Duration(animation)[1])
        => (/\ val[1] /= Panic
            /\ val[1] = Animate(animation, Duration(animation)[1]))

\* animate() past the end of a Repeat over a zero-length source has panicked
C8_Witness ==
    /\ lastOp = "animate" /\ animation.kind = "Repeat"
    /\ Duration(animation.src) = Some(DURATION_ZERO)
    /\ Duration(animation) = Some(DURATION_ZERO)
    /\ asked > 0 /\ val = Some(Panic)

\* C9: scale(k) with k > 0 over a bounded source evaluates the source at e / k,
\* and duration() agrees with that: from duration() on animate() returns the
\* source's final value, and the animation is finished (what makes a Timeline
\* report Completed) exactly when the source is evaluated at or past its end.
C9_ScaleConsistentWithDuration ==
    (/\ lastOp = "animate" /\ animation.kind = "Scale" /\ animation.num > 0
     /\ IsSome(Duration(animation.src)))
        => LET src == animation.src
               at == div_f64(asked, animation.num, animation.den)
               end == Duration(src)[1]
           IN  /\ val[1] = Animate(src, at)
               /\ asked >= Duration(animation)[1] => val[1] = Animate(src, end)
               /\ is_finished(animation, asked) <=> at >= end

\* scale(2.0) over 0 -> 12 in 4 ticks, asked at its duration(): a quarter of the way
C9_Witness ==
    /\ lastOp = "animate"
    /\ animation = ScaleNew(Linear(4, Count(2)), 2, 1)
    /\ Duration(animation) = Some(2) /\ asked = 2
    /\ val = Some(Ok(3))

\* C10: x.cached().animate(e) returns what x.animate(e) returns for the same e,
\* whatever was asked before, and cached().duration() is x.duration().
C10_CachedEqualsSource ==
    (lastOp = "animate" /\ animation.kind = "Cache")
        => (/\ val[1] = Animate(animation.src, asked)
            /\ Duration(animation) = Duration(animation.src))

\* cached() over scale(2.0), asked at 4: answered with the source's value at 2
C10_Witness ==
    /\ lastOp = "animate"
    /\ animation = CacheNew(ScaleNew(Linear(4, Count(2)), 2, 1))
    /\ asked = 4 /\ cell = Some(<<2, 3>>)
    /\ val = Some(Ok(3)) /\ Animate(animation.src, asked) = Ok(6)

\* C11: a repeated animation of simple duration s > 0 (the repeat combinator, or
\* Options::times/repeat without skip and delay) asked at a positive multiple of
\* s within the repeat limit returns the value at the END of a cycle; between the
\* multiples it returns the one-cycle value at (elapsed mod s); from the limit
\* n * s on it returns what it returns at n * s.
C11_RepeatBoundaries ==
    LET a == animation
        combinator == a.kind = "Repeat" /\ IsSome(Duration(a.src))
        primitive == a.kind = "Primitive" /\ a.opt.skip = None /\ a.opt.delay = None
        \* one cycle of the animation, its length, and the repeat behaviour
        cycle == IF combinator THEN a.src
                 ELSE PrimitiveNew([a.opt EXCEPT !.repeat = Count(2)])
        s == IF combinator THEN Duration(a.src)[1] ELSE a.opt.duration
        repeat == IF combinator THEN a.repeat ELSE a.opt.repeat
        limited == repeat.tag = "Count"
        limit == IF limited THEN (s * repeat.n2) \div 2 ELSE 0
        e == IF limited /\ asked > limit THEN limit ELSE asked
    IN  (lastOp = "animate" /\ (combinator \/ primitive) /\ s > 0)
            => /\ (e > 0 /\ e % s = 0) => val[1] = Animate(cycle, s)
               /\ e % s /= 0 => val[1] = Animate(cycle, e % s)
               /\ e = 0 => val[1] = Animate(cycle, 0)
               /\ (limited /\ asked >= limit) => val[1] = Animate(a, limit)

\* times(2.0) on 0 -> 12 in 2 ticks, asked at the end of the first cycle: 12, not 0
C11_Witness ==
    /\ lastOp = "animate" /\ animation = Linear(2, Count(4))
    /\ asked = 2 /\ val = Some(Ok(12))

\* C12: chain(A, B) with A bounded by dA returns A's value at e for e < dA and
\* B's value at e - dA for e >= dA (the boundary instant is B's); with A unbounded
\* it returns A's value and B is not evaluated; its duration is dA + dB when both
\* are bounded and None otherwise.
C12_ChainDispatch ==
    (lastOp = "animate" /\ animation.kind = "Chain")
        => LET dA == Duration(animation.first)
               dB == Duration(animation.second)
           IN  /\ (dA /= None /\ asked < dA[1])
                      => val[1] = Animate(animation.first, asked)
               /\ (dA /= None /\ asked >= dA[1])
                      => val[1] = Animate(animation.second, asked - dA[1])
               /\ dA = None => val[1] = Animate(animation.first, asked)
               /\ Duration(animation) =
                      IF dA /= None /\ dB /= None THEN Some(dA[1] + dB[1]) ELSE None

\* two chained segments 0 -> 12 of 2 ticks each, asked at 2: the start of the second
C12_Witness ==
    /\ lastOp = "animate"
    /\ animation = ChainNew(Linear(2, Count(2)), Linear(2, Count(2)))
    /\ Duration(animation) = Some(4)
    /\ asked = 2 /\ val = Some(Ok(0)) /\ Animate(animation.first, 2) = Ok(12)

-----------------------------------------------------------------------------
(* Properties of Animatable::animate, checked under SpecValue *)

\* C13: for every built-in Animatable type and every pair of endpoints, ascending
\* or descending, from.animate(to, 0.0) is from and from.animate(to, 1.0) is to,
\* and with from = to the result is from at every time.
C13_EndpointsExact ==
    lastOp = "blend"
        => /\ asked = 0 => val = Some(Ok(animation.from))
           /\ asked = TimeSteps => val = Some(Ok(animation.to))
           /\ animation.from = animation.to => val = Some(Ok(animation.from))

\* 'e'.animate(&'a', 1.0) has returned 'e'
C13_Witness ==
    /\ lastOp = "blend" /\ animation.ty = "char"
    /\ animation.from = 101 /\ animation.to = 97
    /\ asked = TimeSteps /\ val = Some(Ok(101))

-----------------------------------------------------------------------------
(* Properties of the step animation, checked under Spec *)

\* C14: a step animation over n >= 1 items with interval i > 0 asks its cursor for
\* the index floor(elapsed / i) clamped to [0, n - 1], so every value() of a
\* Timeline over it returns that item, the last one from duration() on, and none
\* fails; so does the value() of a Timeline that update() has just completed.
C14_StepIndexClamped ==
    (/\ lastOp = "value" /\ animation.kind = "Step"
     /\ Len(animation.items) >= 1 /\ animation.interval > 0)
        => LET n == Len(animation.items)
               floor == value_elapsed(state, now) \div animation.interval
               index == IF floor > n - 1 THEN n - 1 ELSE floor
           IN  val = Some(Ok(animation.items[index + 1]))

\* value() of a Timeline completed at the end of three steps has panicked
C14_Witness ==
    /\ lastOp = "value" /\ animation = StepNew(<<10, 20, 30>>, 1)
    /\ state = Completed(Some(3)) /\ now = 3
    /\ val = Some(Panic)

-----------------------------------------------------------------------------
(* Properties of the primitive, checked under SpecAnim *)

C16_AutoReverseSymmetric ==
    LET o == animation.opt
        d == o.duration
    IN  (/\ lastOp = "animate" /\ animation.kind = "Primitive"
         /\ o.auto_reverse /\ o.easing = "linear" /\ d > 0 /\ o.repeat = Count(2)
         /\ o.skip = None /\ o.delay = None)
            => /\ asked = 0 => val = Some(Ok(o.from))
               /\ 2 * asked = d => val = Some(Ok(o.to))
               /\ asked >= d => val = Some(Ok(o.from))
               /\ asked <= d => val[1] = Animate(animation, d - asked)
               /\ Duration(animation)
                    = Duration(PrimitiveNew([o EXCEPT !.auto_reverse = FALSE]))
               /\ animation.duration = Some(d)

\* 0 -> 12 -> 0 in 4 ticks: 5 at 3 ticks, where it is 6 at 1 tick
C16_Witness ==
    /\ lastOp = "animate"
    /\ animation = PrimitiveNew(Options(0, 12, 4, Count(2), TRUE, None, None, "linear"))
    /\ asked = 3 /\ val = Some(Ok(5)) /\ Animate(animation, 1) = Ok(6)

-----------------------------------------------------------------------------
(* Properties of construction, checked under SpecBuild *)

\* C17: a constructor called with invalid parameters panics, so that no animation
\* is built from them and none is ever asked for a value: seek(End(..)) and
\* seek(Percent(..)) on an unbounded source, a seek percent outside [-1, 1], a
\* negative scale, a speed_up ratio <= 0, an empty key-frame list and a key-frame
\* percent outside [0, 1].
C17_InvalidConstructionPanics ==
    LET c == IF animation.kind = "Call" THEN animation ELSE animation.call
        invalid ==
            \/ /\ c.method = "seek" /\ c.arg.tag \in { "End", "Percent" }
               /\ Duration(c.src) = None
            \/ c.method = "seek" /\ c.arg.tag = "Percent" /\ (c.arg.p < -4 \/ c.arg.p > 4)
            \/ c.method = "scale" /\ c.arg[1] < 0
            \/ c.method = "speed_up" /\ c.arg[1] <= 0
            \/ c.method = "key_frames" /\ c.arg = << >>
            \/ /\ c.method = "key_frames"
               /\ \E i \in 1..Len(c.arg) :
                     /\ c.arg[i].key_time.tag = "Percent"
                     /\ (c.arg[i].key_time.n4 < 0 \/ c.arg[i].key_time.n4 > 4)
    IN  invalid => (/\ animation.kind \in { "Call", "Panicked" }
                    /\ animation.kind = "Call" => lastOp = "new"
                    /\ val = None)

\* seek(Percent(1.25)) on a bounded source has panicked
C17_Witness ==
    /\ lastOp = "construct" /\ animation.kind = "Panicked"
    /\ animation.call.method = "seek"
    /\ animation.call.arg = SeekPercent(5)
    /\ Duration(animation.call.src) = Some(4)
    /\ val = None

\* C18: seek(Begin(p)) and skip(p) return the source's value at p + e and last
\* max(d - p, 0) on a source of duration d; on a bounded source seek(End(p)) is
\* the animation seek(Begin(max(d - p, 0))), seek(Percent(q)) with 0 <= q <= 1 is
\* seek(Begin(q * d)) and with -1 <= q < 0 is seek(Begin((1 + q) * d)), in
\* animate() and in duration().
C18_SeekEquivalences ==
    (animation.kind = "Built" /\ animation.call.method \in { "seek", "skip" })
        => LET c == animation.call
               d == Duration(c.src)
               p == CASE c.method = "skip" -> c.arg
                      [] c.arg.tag = "Begin" -> c.arg.p
                      [] c.arg.tag = "End" -> IF d[1] > c.arg.p THEN d[1] - c.arg.p ELSE 0
                      [] c.arg.tag = "Percent" /\ c.arg.p >= 0 -> (d[1] * c.arg.p) \div 4
                      [] c.arg.tag = "Percent" /\ c.arg.p < 0 -> (d[1] * (4 + c.arg.p)) \div 4
           IN  /\ animation.node = SeekNew(c.src, SeekBegin(p))
               /\ Duration(animation.node)
                    = IF d = None THEN None ELSE Some(IF d[1] > p THEN d[1] - p ELSE 0)
               /\ lastOp = "animate" => val = Some(Animate(c.src, p + asked))

\* seek(Percent(-0.25)) over 0 -> 12 in 4 ticks starts 3 ticks in, at 9
C18_Witness ==
    /\ lastOp = "animate" /\ animation.kind = "Built"
    /\ animation.call.method = "seek" /\ animation.call.arg = SeekPercent(-1)
    /\ animation.call.src = Linear(4, Count(2))
    /\ Duration(animation.node) = Some(1)
    /\ asked = 0 /\ val = Some(Ok(9))

-----------------------------------------------------------------------------
(* Options against the combinators, checked under SpecAnim *)

\* C19: for every duration, repeat and auto-reverse setting,
\* Options(..).delay(d).build() agrees with Options(..).build().delay(d): animate(e)
\* is the undelayed primitive at max(e - d, 0) (the delay is applied once, not in
\* every cycle) and duration() is the undelayed duration + d when bounded; and
\* Options(..).skip(s).build() agrees with Options(..).build().skip(s) likewise.
C19_OptionsDelaySkipAsCombinators ==
    (lastOp = "animate" /\ animation.kind = "Primitive")
        => LET o == animation.opt
               undelayed == PrimitiveNew([o EXCEPT !.delay = None])
               unskipped == PrimitiveNew([o EXCEPT !.skip = None])
           IN  /\ (o.delay /= None /\ o.skip = None)
                    => LET d == o.delay[1]
                           inner == Duration(undelayed)
                       IN  /\ val[1] = Animate(DelayNew(undelayed, d), asked)
                           /\ val[1] = Animate(undelayed, IF asked > d THEN asked - d ELSE 0)
                           /\ Duration(animation) = Duration(DelayNew(undelayed, d))
                           /\ Duration(animation)
                                = IF inner = None THEN None ELSE Some(inner[1] + d)
               /\ (o.skip /= None /\ o.delay = None)
                    => LET skipped == SeekNew(unskipped, SeekBegin(o.skip[1]))
                       IN  /\ val[1] = Animate(skipped, asked)
                           /\ val[1] = Animate(unskipped, asked + o.skip[1])
                           /\ Duration(animation) = Duration(skipped)

\* 0 -> 12 in 4 ticks, times(1.5), delay(2): asked at its end, mid-cycle
C19_Witness ==
    /\ lastOp = "animate"
    /\ animation = PrimitiveNew(Options(0, 12, 4, Count(3), FALSE, None, Some(2), "linear"))
    /\ Duration(animation) = Some(8)
    /\ asked = 8 /\ val = Some(Ok(6))

-----------------------------------------------------------------------------
(* Properties of Repeat, checked under SpecAnim *)

\* C20: Repeat over a bounded source of simple duration s > 0 lasts s * n for
\* Count(n) and has no duration for Forever; over a zero-length source it has
\* duration Some(0) for every repeat behaviour, is finished at once (a Timeline
\* reports Completed on its first update) and returns the source's value at every
\* elapsed without failing.
C20_RepeatDurationAndZeroLength ==
    (lastOp = "animate" /\ animation.kind = "Repeat" /\ Duration(animation.src) /= None)
        => LET s == Duration(animation.src)[1]
               repeat == animation.repeat
           IN  /\ (s > 0 /\ repeat.tag = "Count")
                    => Duration(animation) = Some((s * repeat.n2) \div 2)
               /\ (s > 0 /\ repeat.tag = "Forever") => Duration(animation) = None
               /\ s = 0 => /\ Duration(animation) = Some(DURATION_ZERO)
                           /\ is_finished(animation, DURATION_ZERO)
                           /\ val[1] /= Panic
                           /\ val[1] = Animate(animation.src, asked)

\* a zero-length primitive repeated forever, asked at 0, has panicked
C20_Witness ==
    /\ lastOp = "animate"
    /\ animation = RepeatNew(Linear(DURATION_ZERO, Count(2)), Forever)
    /\ asked = 0 /\ val = Some(Panic)
    /\ Animate(animation.src, asked) = Ok(0)

-----------------------------------------------------------------------------
(* Properties of scale(0.0), checked under SpecAnim *)

\* C21: scale(0.0) over a bounded source has duration Some(0) and returns, at
\* every elapsed, the source's final value: the source evaluated at its own
\* duration, not its start value.
C21_ScaleZeroAtSourceEnd ==
    (/\ lastOp = "animate" /\ animation.kind = "Scale" /\ animation.num = 0
     /\ IsSome(Duration(animation.src)))
        => (/\ Duration(animation) = Some(DURATION_ZERO)
            /\ val[1] = Animate(animation.src, Duration(animation.src)[1]))

\* scale(0.0) over 0 -> 12 in 4 ticks has returned 0, the start value
C21_Witness ==
    /\ lastOp = "animate"
    /\ animation = ScaleNew(Linear(4, Count(2)), 0, 1)
    /\ Duration(animation) = Some(DURATION_ZERO)
    /\ asked = 3 /\ val = Some(Ok(0))
    /\ Animate(animation.src, Duration(animation.src)[1]) = Ok(12)

-----------------------------------------------------------------------------
(* Properties of key frames, checked under SpecBuild *)

\* C22 as stated: the output of a key-frame animation does not depend on the
\* order the frames were supplied in; percent stamps resolve to percent * T, T
\* the largest absolute stamp (one second when there is none); duration() is T;
\* animate(e) blends the two frames whose resolved times bracket e at the
\* fraction (e - t_prev) / (t_next - t_prev) eased by the later frame; before the
\* first frame's time it is the first frame's value, from the last frame's time
\* on the last frame's value.  The statement is made of the frames in `frames`
\* when `tied` allows frames with one resolved time, and else only of frames
\* whose resolved times differ.
KeyFramesAsSpecified(tied) ==
    (animation.kind = "Built" /\ animation.call.method = "key_frames")
        => LET frames == animation.call.arg
               n == Len(frames)
               absolute == { frames[i].key_time.d :
                               i \in { j \in 1..n : frames[j].key_time.tag = "Duration" } }
               T == IF absolute = {} THEN DEFAULT_ANIMATION_DURATION
                    ELSE CHOOSE d \in absolute : \A x \in absolute : x <= d
               time(i) == IF frames[i].key_time.tag = "Duration" THEN frames[i].key_time.d
                          ELSE (T * frames[i].key_time.n4) \div 4
               distinct == \A i, j \in 1..n : i /= j => time(i) /= time(j)
               first == CHOOSE i \in 1..n : \A j \in 1..n : time(i) <= time(j)
               last == CHOOSE i \in 1..n : \A j \in 1..n : time(j) <= time(i)
               prev == CHOOSE i \in 1..n :
                          time(i) <= asked /\ \A j \in 1..n : time(j) <= asked => time(j) <= time(i)
               next == CHOOSE i \in 1..n :
                          time(i) > asked /\ \A j \in 1..n : time(j) > asked => time(i) <= time(j)
               expected ==
                   IF asked < time(first) THEN frames[first].value
                   ELSE IF asked >= time(last) THEN frames[last].value
                   ELSE LET fraction == ease(frames[next].easing, asked - time(prev),
                                             time(next) - time(prev))
                        IN  IntAnimate(frames[prev].value, frames[next].value,
                                       fraction[1], fraction[2])
           IN  (tied \/ distinct)
                  => /\ Duration(animation.node) = Some(T)
                     /\ \A f \in Permutations(1..n) :
                           LET reordered == KeyFramesBuild([i \in 1..n |-> frames[f[i]]])
                           IN  \A e \in 0..MaxElapsed :
                                  Animate(reordered, e) = Animate(animation.node, e)
                     /\ (lastOp = "animate" /\ distinct) => val = Some(Ok(expected))

\* C22 (amended): for key frames whose resolved times are pairwise distinct the
\* output does not depend on the order they were supplied in, duration() is T,
\* and animate(e) is the eased blend of the two frames bracketing e, the first
\* frame's value before its time and the last frame's value from its time on.
C22_KeyFramesDistinctTimes == KeyFramesAsSpecified(FALSE)

\* C22 (as stated): the same of every list of frames, two frames at one resolved
\* time included.
C22_KeyFramesAnyOrder == KeyFramesAsSpecified(TRUE)

\* frames supplied as 12 at 2 s (quad), 0 at 0, 4 at 25 %: asked at 1500 ms, two
\* thirds of the way from 4 to 12, eased to four ninths
C22_Witness ==
    /\ lastOp = "animate" /\ animation.kind = "Built"
    /\ animation.call.method = "key_frames"
    /\ animation.call.arg = <<KeyFrame(12, KeyTimeDuration(4), "quad"),
                              KeyFrame(0, KeyTimeDuration(0), "linear"),
                              KeyFrame(4, KeyTimePercent(1), "linear")>>
    /\ Duration(animation.node) = Some(4)
    /\ asked = 3 /\ val = Some(Ok(8))

-----------------------------------------------------------------------------
(* Properties of Parallel, checked under SpecAnim *)

\* C23: parallel/zip(A, B) evaluates A and B at the same elapsed time and returns
\* the pair of their values; its duration is max(dA, dB) when both are bounded
\* and None when either is unbounded, so the shorter component holds its final
\* value until the longer one ends.  With 0 -> 12 for 0.0 -> 1.0: one and two
\* seconds zipped last two seconds and give (12, 6) at one second, (12, 12) at
\* two seconds and after.
C23_ParallelPairs ==
    (lastOp = "animate" /\ animation.kind = "Parallel")
        => LET A == animation.first
               B == animation.second
               dA == Duration(A)
               dB == Duration(B)
               a == Animate(A, asked)
               b == Animate(B, asked)
           IN  /\ val = Some(IF a = Panic \/ b = Panic THEN Panic ELSE Ok(<<a[1], b[1]>>))
               /\ Duration(animation) =
                      IF dA /= None /\ dB /= None
                      THEN Some(IF dA[1] >= dB[1] THEN dA[1] ELSE dB[1]) ELSE None
               /\ (dA /= None /\ asked >= dA[1] /\ val[1] /= Panic)
                      => Ok(val[1][1][1]) = Animate(A, dA[1])
               /\ (dB /= None /\ asked >= dB[1] /\ val[1] /= Panic)
                      => Ok(val[1][1][2]) = Animate(B, dB[1])
               /\ animation = ParallelNew(Linear(2, Count(2)), Linear(4, Count(2)))
                      => /\ Duration(animation) = Some(4)
                         /\ asked = 2 => val = Some(Ok(<<12, 6>>))
                         /\ asked >= 4 => val = Some(Ok(<<12, 12>>))

\* one and two seconds zipped, asked at 1500 ms: the shorter one holds its end
C23_Witness ==
    /\ lastOp = "animate"
    /\ animation = ParallelNew(Linear(2, Count(2)), Linear(4, Count(2)))
    /\ Duration(animation) = Some(4)
    /\ asked = 3 /\ val = Some(Ok(<<12, 9>>))

-----------------------------------------------------------------------------
(* Properties of the integer blend, checked under SpecValue *)

\* C24: for an integer type, from.animate(to, t) with 0 < t < 1 is the integer
\* nearest to the linear blend from * (1 - t) + to * t, for ascending and
\* descending endpoints alike, and so lies between from and to inclusive.
C24_IntegerRoundsToNearest ==
    (lastOp = "blend" /\ animation.ty = "int" /\ 0 < asked /\ asked < TimeSteps)
        => LET from == animation.from
               to == animation.to
               \* TimeSteps times the linear blend
               blend == from * (TimeSteps - asked) + to * asked
               result == val[1][1]
               off == result * TimeSteps - blend
           IN  /\ 2 * off <= TimeSteps /\ -TimeSteps <= 2 * off
               /\ (from <= result /\ result <= to) \/ (to <= result /\ result <= from)

\* 12.animate(&0, 0.5) has returned 5, where the blend is 6.0
C24_Witness ==
    /\ lastOp = "blend" /\ animation.ty = "int"
    /\ animation.from = 12 /\ animation.to = 0
    /\ asked = 2 /\ val = Some(Ok(5))

-----------------------------------------------------------------------------
(* Properties of the Timeline ids, checked under SpecThreads *)

\* C25: every Timeline constructed in the process gets an id different from that
\* of every other Timeline, also when several threads construct Timelines at the
\* same time (no two constructions get the same counter value); the ids are taken
\* in increasing order from the one counter, which starts at 1 and is never
\* reset: having handed out n ids it has handed out exactly 1..n and reads n + 1.
C25_TimelineIdsUnique ==
    LET underway == { t \in Threads : constructing[t] /= None }
        ids == { built[i][2] : i \in 1..Len(built) }
                  \cup { constructing[t][1] : t \in underway }
    IN  /\ \A i, j \in 1..Len(built) : i /= j => built[i][2] /= built[j][2]
        /\ \A t \in underway : \A i \in 1..Len(built) : built[i][2] /= constructing[t][1]
        /\ \A t, u \in underway : t /= u => constructing[t][1] /= constructing[u][1]
        /\ ids = 1..(Len(built) + Cardinality(underway))
        /\ ID_GEN = Len(built) + Cardinality(underway) + 1
        /\ \A i, j \in 1..Len(built) :
              (i < j /\ built[i][1] = built[j][1]) => built[i][2] < built[j][2]

\* three threads were constructing at once; the Timeline with id 3 was returned
\* before the one with id 1, and two constructions are under way again
C25_Witness ==
    /\ Len(built) = 3
    /\ built[1][2] = 3 /\ built[3][2] = 1
    /\ Cardinality({ t \in Threads : constructing[t] /= None }) = 2
    /\ ID_GEN = 6

-----------------------------------------------------------------------------
(* Termination of the update loop, checked under SpecLoop *)

\* C26: a Timeline over a bounded animation that has been begun, and is neither
\* paused nor stopped nor restarted afterwards, eventually has update() return
\* Completed, provided update() keeps being called while the clock advances; so
\* the loop `loop { if timeline.update().is_completed() { break } .. value() }`
\* ends for every bounded animation: by its break, unless the value() in its
\* body panicked and update() is called no more.
C26_UpdateLoopTerminates ==
    (state.tag = "Animating" /\ IsSome(Duration(animation)))
        ~> \/ lastOp = "update" /\ ret = "Completed" /\ state.tag = "Completed"
           \/ LoopPanicked

\* the loop over 0 -> 12 repeated 1.5 times behind a delay has met its break, its
\* update() coming one tick after the end
C26_Witness ==
    /\ lastOp = "update" /\ ret = "Completed"
    /\ animation = DelayNew(Linear(DEFAULT_ANIMATION_DURATION, Count(3)), 2)
    /\ Duration(animation) = Some(5)
    /\ state = Completed(Some(6)) /\ now = 6

-----------------------------------------------------------------------------
(* Properties of the thread-local registry, checked under SpecRegistry *)

\* C27: when a batch update of the registry (local::update) ends, every timeline
\* that was registered has been updated exactly once, all with the one `now` read
\* at its start, and no other timeline has been updated; no timeline whose status
\* became Completed or Paused remains registered, and every timeline that is
\* still Animating remains registered.
C27_BatchUpdatesAndEvicts ==
    [][ (batch /= None /\ batch' = None)
          => \A id \in LocalIds :
                LET b == batch[1]
                    cache == inners[id].cache
                IN  /\ id \in b.registered
                          => (/\ b.updates[id] = 1
                              /\ cache /= None /\ cache[1][1] = b.now)
                    /\ id \notin b.registered => b.updates[id] = 0
                    /\ (/\ id \in b.registered /\ cache /= None
                        /\ cache[1][2] \in { "Completed", "Paused" })
                          => id \notin registry'
                    /\ (/\ id \in b.registered /\ cache /= None
                        /\ cache[1][2] = "Animating")
                          => id \in registry' ]_vars

\* a batch that started at 2 and ended at 3 has evicted timeline 1, Completed at
\* 12, and kept timeline 2, still Animating
C27_Witness ==
    /\ lastOp = "update" /\ batch = None /\ now = 3
    /\ registry = { 2 }
    /\ inners[1].cache /= None /\ inners[1].cache[1][1] = 2
    /\ inners[1].cache[1][2] = "Completed" /\ inners[1].cache[1][3] = Ok(12)
    /\ inners[2].cache /= None /\ inners[2].cache[1][1] = 2
    /\ inners[2].cache[1][2] = "Animating"


\* C28: after each control call on a thread-local timeline its status() and
\* value() agree with the underlying core Timeline, without waiting for the next
\* batch update: after begin() status() is Animating, after pause() on an
\* animating timeline it is Paused, after resume() on a paused timeline it is
\* Animating again, and after stop() (of a timeline that was begun) Completed.
C28_LocalReadsFollowControlCalls ==
    [][ lastOp' \in { "begin", "stop", "pause", "resume" }
          => LET id == asked'
                 before == inners[id]
                 after == inners'[id]
                 a == LocalAnimation(id)
             IN  /\ local_status(after) = status(after.timeline)
                 /\ local_value(after, a, now') = value(after.timeline, a, None, now').value
                 /\ lastOp' = "begin" => local_status(after) = "Animating"
                 /\ (lastOp' = "pause" /\ before.timeline.tag = "Animating")
                       => local_status(after) = "Paused"
                 /\ (lastOp' = "resume" /\ before.timeline.tag = "Paused")
                       => local_status(after) = "Animating"
                 /\ (lastOp' = "stop" /\ before.timeline.tag /= "Idle")
                       => local_status(after) = "Completed" ]_vars

\* resume() of a paused timeline: the core Timeline is Animating, status() still
\* answers Paused from the cache that pause() filled
C28_Witness ==
    /\ lastOp = "resume" /\ asked = 1
    /\ inners[1].timeline.tag = "Animating"
    /\ inners[1].cache /= None /\ inners[1].cache[1][2] = "Paused"
    /\ local_status(inners[1]) = "Paused"
    /\ 1 \in registry


\* C29: after any sequence of begin/pause/resume/stop calls and batch updates the
\* `scheduled` flag of a thread-local timeline is true exactly when the timeline
\* is in the registry: every insertion sets it and every removal, the eviction of
\* Completed and Paused timelines by the batch update included, clears it.
C29_ScheduledIffRegistered ==
    \A id \in LocalIds : inners[id].scheduled <=> id \in registry

\* a batch update has evicted timeline 1 on its completion; its flag is still set
C29_Witness ==
    /\ lastOp = "update" /\ batch = None
    /\ 1 \notin registry /\ inners[1].scheduled
    /\ inners[1].timeline.tag = "Completed"


-----------------------------------------------------------------------------
(* Properties of check_time, checked under SpecValue *)

\* C30: in a debug build check_time(t) fails its assertion for every t < 0 and
\* for every t > 1, and passes for every t in [0, 1]
C30_OutOfRangeTimeDetected ==
    lastOp = "check_time" =>
        IF asked < 0 \/ asked > TimeSteps
        THEN val = Some(Panic)
        ELSE val = Some(Ok(<<asked, TimeSteps>>))

\* check_time(5/4) was called and returned 5/4: the assertion passed
C30_Witness ==
    /\ lastOp = "check_time" /\ asked = TimeSteps + 1
    /\ val = Some(Ok(<<TimeSteps + 1, TimeSteps>>))

====
